---- MODULE Spec2Model ----
(***************************************************************************)
(* Favorites store of the piano sheets API (src/app.py).                   *)
(*                                                                         *)
(* The favorites file users/data.js lives in a remote repository.  Every   *)
(* request re-fetches it, recovers the mapping user-id -> list of song-ids *)
(* with a regex based tolerant parser, and a mutation rewrites the whole   *)
(* file through update_file, passing the blob token of an earlier fetch.   *)
(*                                                                         *)
(* Text is modelled as a sequence of one-character strings so that the     *)
(* parser and the serializer act on characters as the code does.           *)
(***************************************************************************)
EXTENDS Naturals, Sequences, FiniteSets

VARIABLES history, configured, ids, req, ptext, pstage, pjson, pfav

vars == <<history, configured, ids, req, ptext, pstage, pjson, pfav>>
storeVars == <<history, configured, ids, req>>
parserVars == <<ptext, pstage, pjson, pfav>>

(***************************************************************************)
(* Bounds                                                                  *)
(***************************************************************************)
\* number of HTTP requests of one behaviour (each may overlap the others)
NumReqs == 2

(***************************************************************************)
(* Text helpers                                                            *)
(***************************************************************************)
\* Python's \s on the characters that occur here; also JSON whitespace
IsWs(c) == c \in {" ", "\n", "\t", "\r"}

RECURSIVE SkipWs(_, _)
\* first index >= i of t that holds no whitespace (Len(t)+1 if none)
SkipWs(t, i) ==
    IF i <= Len(t) /\ IsWs(t[i]) THEN SkipWs(t, i + 1) ELSE i

\* t holds p at index i
HasAt(t, i, p) ==
    /\ i + Len(p) - 1 <= Len(t)
    /\ SubSeq(t, i, i + Len(p) - 1) = p

\* the least element of a non-empty set of numbers, 0 for the empty set
First(S) == IF S = {} THEN 0 ELSE CHOOSE x \in S : \A y \in S : x <= y

\* first index >= i of t holding character c, 0 if none
IndexOf(t, i, c) == First({k \in i..Len(t) : t[k] = c})

RECURSIVE RStrip(_, _)
\* str.rstrip(chars)
RStrip(t, chars) ==
    IF Len(t) > 0 /\ t[Len(t)] \in chars
    THEN RStrip(SubSeq(t, 1, Len(t) - 1), chars)
    ELSE t

RECURSIVE Join(_, _)
\* sep.join(parts)
Join(parts, sep) ==
    IF Len(parts) = 0 THEN <<>>
    ELSE IF Len(parts) = 1 THEN parts[1]
    ELSE parts[1] \o sep \o Join(Tail(parts), sep)

FavoritesWord ==
    <<"f","a","v","o","r","i","t","e","s">>

(***************************************************************************)
(* Mappings: a Python dict as the sequence of its items in insertion order *)
(***************************************************************************)
Keys(m) == {m[i].uid : i \in 1..Len(m)}

\* dict.get(k, [])
DictGet(m, k) ==
    IF k \in Keys(m)
    THEN m[CHOOSE i \in 1..Len(m) : m[i].uid = k].favs
    ELSE <<>>

\* m[k] = v: an existing key keeps its place, a new key goes last
DictSet(m, k, v) ==
    IF k \in Keys(m)
    THEN [i \in 1..Len(m) |-> IF m[i].uid = k THEN [uid |-> k, favs |-> v] ELSE m[i]]
    ELSE Append(m, [uid |-> k, favs |-> v])

\* x in list
InList(x, l) == \E i \in 1..Len(l) : l[i] = x

\* list.remove(x): drops the first occurrence
ListRemove(l, x) ==
    LET i == CHOOSE j \in 1..Len(l) : l[j] = x /\ \A k \in 1..(j - 1) : l[k] # x
    IN  SubSeq(l, 1, i - 1) \o SubSeq(l, i + 1, Len(l))

NoDuplicates(l) == \A i, j \in 1..Len(l) : l[i] = l[j] => i = j

(***************************************************************************)
(* The tolerant parser of get_all_favorites                                *)
(***************************************************************************)
\* first index k >= i with t[k] = "}" and t[k+1] = ";", 0 if none
FindClose(t, i) == First({k \in i..(Len(t) - 1) : t[k] = "}" /\ t[k + 1] = ";"})

\* the group when "{" is at index b and the first "};" after it starts at c
MatchGroup(t, b, c) == IF c = 0 THEN <<>> ELSE SubSeq(t, b, c)

\* \s*({[\s\S]*?}); from index b on
MatchBrace(t, b) ==
    IF b <= Len(t) /\ t[b] = "{" THEN MatchGroup(t, b, FindClose(t, b + 1)) ELSE <<>>

\* =\s*({[\s\S]*?}); from index e on
MatchEquals(t, e) ==
    IF e <= Len(t) /\ t[e] = "=" THEN MatchBrace(t, SkipWs(t, e + 1)) ELSE <<>>

\* the group of favorites\s*=\s*({[\s\S]*?}); matched at index i, <<>> if no match
MatchAt(t, i) ==
    IF HasAt(t, i, FavoritesWord)
    THEN MatchEquals(t, SkipWs(t, i + Len(FavoritesWord)))
    ELSE <<>>

GroupAt(t, s) == IF s = 0 THEN <<>> ELSE MatchAt(t, s)

\* re.search(...).group(1): the leftmost match's group, <<>> when there is no match
regex_search(content) ==
    GroupAt(content, First({i \in 1..Len(content) : MatchAt(content, i) # <<>>}))

\* t holds at index k a "/*" with a "*/" somewhere after it
BlockCommentAt(t, k) ==
    /\ HasAt(t, k, <<"/", "*">>)
    /\ \E e \in (k + 2)..Len(t) : HasAt(t, e, <<"*", "/">>)

RECURSIVE StripBlocksFrom(_, _)
StripBlockAt(t, i, s) ==
    IF s = 0 THEN SubSeq(t, i, Len(t))
    ELSE SubSeq(t, i, s - 1)
             \o StripBlocksFrom(t, First({e \in (s + 2)..Len(t) :
                                            HasAt(t, e, <<"*", "/">>)}) + 2)

StripBlocksFrom(t, i) == StripBlockAt(t, i, First({k \in i..Len(t) : BlockCommentAt(t, k)}))

\* t holds at index k a "//" with a newline somewhere after it
LineCommentAt(t, k) == HasAt(t, k, <<"/", "/">>) /\ IndexOf(t, k + 2, "\n") # 0

RECURSIVE StripFrom(_, _)
\* the text from index i to the comment at s, then the rest after its newline
StripAt(t, i, s) ==
    IF s = 0 THEN SubSeq(t, i, Len(t))
    ELSE SubSeq(t, i, s - 1) \o StripFrom(t, IndexOf(t, s + 2, "\n") + 1)

\* t from index i on without its line comments, leftmost first
StripFrom(t, i) == StripAt(t, i, First({k \in i..Len(t) : LineCommentAt(t, k)}))

\* strip_comments changed to remove block comments as well
strip_comments_block(t) == StripBlocksFrom(StripFrom(t, 1), 1)

\* re.sub(r'//.*?\n', '', s): a line comment goes with its newline; // with no
\* newline after it stays
strip_comments(t) == StripFrom(t, 1)

\* s.replace("'", '"')
replace_quotes(t) == [i \in 1..Len(t) |-> IF t[i] = "'" THEN "\"" ELSE t[i]]

\* t holds at index i a comma followed by whitespace and a closing bracket
TrailingCommaAt(t, i) ==
    /\ t[i] = ","
    /\ SkipWs(t, i + 1) <= Len(t)
    /\ t[SkipWs(t, i + 1)] \in {"}", "]"}

RECURSIVE CommasFrom(_, _)
\* the text from index i to the match at s, the match without its comma, then
\* the rest after the match's bracket at b
CommasAt(t, i, s, b) ==
    IF s = 0 THEN SubSeq(t, i, Len(t))
    ELSE SubSeq(t, i, s - 1) \o SubSeq(t, s + 1, b) \o CommasFrom(t, b + 1)

CommasNext(t, i, s) == CommasAt(t, i, s, SkipWs(t, s + 1))

\* t from index i on, leftmost match first
CommasFrom(t, i) == CommasNext(t, i, First({k \in i..Len(t) : TrailingCommaAt(t, k)}))

\* re.sub(r',(\s*[}\]])', r'\1', s)
remove_trailing_commas(t) == CommasFrom(t, 1)

\* the result of a failed decoding step
DecodeError == [ok |-> FALSE, pos |-> 0, val |-> <<>>]

\* s when it is the index of a quote, else 0
ClosingQuote(t, s) == IF s # 0 /\ t[s] = "\"" THEN s ELSE 0

\* index of the quote closing a JSON string whose body starts at i; 0 when the
\* text ends first or a control character comes first (strict decoding)
StringEnd(t, i) ==
    ClosingQuote(t, First({k \in i..Len(t) : t[k] \in {"\"", "\n", "\t", "\r"}}))

RECURSIVE ArrayItems(_, _, _)
\* after an item: "]" ends the array at k, "," asks for another item
ArrayAfterItem(t, k, got) ==
    IF k > Len(t) THEN DecodeError
    ELSE IF t[k] = "]" THEN [ok |-> TRUE, pos |-> k + 1, val |-> got]
    ELSE IF t[k] = "," THEN ArrayItems(t, SkipWs(t, k + 1), got)
    ELSE DecodeError

\* the item is the string from the quote at i to the quote at e
ArrayItem(t, i, e, acc) ==
    IF e = 0 THEN DecodeError
    ELSE ArrayAfterItem(t, SkipWs(t, e + 1), Append(acc, SubSeq(t, i + 1, e - 1)))

\* the items of an array from index i on, each a string
ArrayItems(t, i, acc) ==
    IF i <= Len(t) /\ t[i] = "\"" THEN ArrayItem(t, i, StringEnd(t, i + 1), acc)
    ELSE DecodeError

ArrayFirst(t, j) ==
    IF j <= Len(t) /\ t[j] = "]"
    THEN [ok |-> TRUE, pos |-> j + 1, val |-> <<>>]
    ELSE ArrayItems(t, j, <<>>)

\* a JSON array whose "[" is at index i
JSONArray(t, i) == ArrayFirst(t, SkipWs(t, i + 1))

RECURSIVE ObjectPairs(_, _, _)
\* after a pair: "}" ends the object at k, "," asks for another pair
ObjectAfterPair(t, k, got) ==
    IF k > Len(t) THEN DecodeError
    ELSE IF t[k] = "}" THEN [ok |-> TRUE, pos |-> k + 1, val |-> got]
    ELSE IF t[k] = "," THEN ObjectPairs(t, SkipWs(t, k + 1), got)
    ELSE DecodeError

\* the pair's value a is in: a later pair of the same key replaces the value
ObjectPair(t, key, a, acc) ==
    IF a.ok THEN ObjectAfterPair(t, SkipWs(t, a.pos), DictSet(acc, key, a.val))
    ELSE DecodeError

\* the pair's value starts at v
ObjectValue(t, key, v, acc) ==
    IF v <= Len(t) /\ t[v] = "[" THEN ObjectPair(t, key, JSONArray(t, v), acc)
    ELSE DecodeError

\* the ":" of the pair is expected at c
ObjectColon(t, key, c, acc) ==
    IF c <= Len(t) /\ t[c] = ":" THEN ObjectValue(t, key, SkipWs(t, c + 1), acc)
    ELSE DecodeError

\* the key is the string from the quote at i to the quote at e
ObjectKey(t, i, e, acc) ==
    IF e = 0 THEN DecodeError
    ELSE ObjectColon(t, SubSeq(t, i + 1, e - 1), SkipWs(t, e + 1), acc)

\* the pairs of an object from index i on: a string key, ":", an array of strings
ObjectPairs(t, i, acc) ==
    IF i <= Len(t) /\ t[i] = "\"" THEN ObjectKey(t, i, StringEnd(t, i + 1), acc)
    ELSE DecodeError

ObjectFirst(t, j) ==
    IF j <= Len(t) /\ t[j] = "}"
    THEN [ok |-> TRUE, pos |-> j + 1, val |-> <<>>]
    ELSE ObjectPairs(t, j, <<>>)

\* a JSON object whose "{" is at index i
JSONObject(t, i) == ObjectFirst(t, SkipWs(t, i + 1))

\* only whitespace may follow the decoded value
DecodeEnd(t, o) ==
    IF o.ok /\ SkipWs(t, o.pos) > Len(t)
    THEN [ok |-> TRUE, val |-> o.val]
    ELSE [ok |-> FALSE, val |-> <<>>]

DecodeTop(t, i) ==
    IF i <= Len(t) /\ t[i] = "{" THEN DecodeEnd(t, JSONObject(t, i))
    ELSE [ok |-> FALSE, val |-> <<>>]

\* json.loads(s) for an object of arrays of strings: [ok, val].  Escapes,
\* numbers, literals and nested values do not occur in the texts of this model.
json_loads(t) == DecodeTop(t, SkipWs(t, 1))

\* lines 93-99: the decoded mapping, {} on a JSONDecodeError
Decoded(d) == IF d.ok THEN d.val ELSE <<>>

\* lines 84-100: the mapping of the matched group, {} without a match
ParseGroup(g) ==
    IF g = <<>> THEN <<>>
    ELSE Decoded(json_loads(remove_trailing_commas(replace_quotes(strip_comments(g)))))

\* lines 83-100: the mapping recovered from the file's text; {} when the
\* pattern is absent or the normalised text does not decode
ParseFavorites(content) == ParseGroup(regex_search(content))

(***************************************************************************)
(* The serializer of update_user_favorites                                 *)
(***************************************************************************)
HeaderText ==
    <<"/","/"," ","A","u","t","o","-","g","e","n","e","r","a","t","e","d"," ","f","a",
      "v","o","r","i","t","e","s"," ","l","i","s","t","\n","/","/"," ","M","u","l","t",
      "i","-","u","s","e","r"," ","s","u","p","p","o","r","t"," ","-"," ","e","a","c",
      "h"," ","u","s","e","r"," ","h","a","s"," ","t","h","e","i","r"," ","o","w","n",
      " ","f","a","v","o","r","i","t","e","s","\n","/","/"," ","U","p","d","a","t","e",
      "d",":"," ","Y","Y","Y","Y","-","m","m","-","d","d"," ","H","H",":","M","M",":",
      "S","S"," ","U","T","C","\n","\n">>

JsOpen ==
    <<"e","x","p","o","r","t"," ","c","o","n","s","t"," ","f","a","v","o","r","i","t",
      "e","s"," ","="," ","{","\n">>

JsClose ==
    <<"\n","}",";","\n">>

Quoted(s) == <<"\"">> \o s \o <<"\"">>

\* '  "{uid}": [{songs_str}],\n'
JsEntry(e) ==
    <<" ", " ">> \o Quoted(e.uid) \o <<":", " ", "[">>
        \o Join([i \in 1..Len(e.favs) |-> Quoted(e.favs[i])], <<",", " ">>)
        \o <<"]", ",", "\n">>

RECURSIVE JsEntries(_)
JsEntries(m) == IF Len(m) = 0 THEN <<>> ELSE JsEntry(Head(m)) \o JsEntries(Tail(m))

\* lines 126-136: the file text written for a mapping
Serialize(m) ==
    HeaderText \o RStrip(JsOpen \o JsEntries(m), {",", "\n"}) \o JsClose

(***************************************************************************)
(* The remote store: the favorites file's revisions, oldest first.  The    *)
(* token of a fetch identifies the revision fetched; update_file replaces  *)
(* the file only when given the token of the current revision.             *)
(***************************************************************************)
\* repo.get_contents(FAVORITES_FILE_PATH): the current text and its token
StoreGet(hist) == [content |-> hist[Len(hist)], sha |-> Len(hist)]

\* repo.update_file(path, message, new_content, sha): a stale token is refused
StoreUpdate(hist, new_content, sha) ==
    IF sha = Len(hist)
    THEN [ok |-> TRUE, history |-> Append(hist, new_content)]
    ELSE [ok |-> FALSE, history |-> hist]

(***************************************************************************)
(* User ids, song ids, files the store may hold at the start               *)
(***************************************************************************)
U1 == <<"u", "1">>
U2 == <<"u", "2">>
Users == {U1, U2}

SongA == <<"a">>
SongB == <<"b">>
\* song ids holding characters the parser's regular expressions act on
SongBracket == <<"a", "]">>
SongCommaBracket == <<"a", ",", "]">>
SongCommaCommaBracket == <<"a", ",", ",", "]">>
PlainSongs == {SongA, SongB}
BracketSongs == {SongBracket, SongCommaBracket}

\* request.args.get('song_id') when the parameter is missing or empty
NoSong == <<>>

Entry(u, l) == [uid |-> u, favs |-> l]

\* a file this program wrote
GeneratedFile == Serialize(<<Entry(U1, <<SongA>>), Entry(U2, <<SongB>>)>>)

\* a hand-written file the parser recovers: a line comment, single quotes,
\* trailing commas; u2 has no entry
HandWrittenFile ==
    <<"/","/"," ","m","y"," ","f","a","v","o","r","i","t","e","s","\n","e","x","p","o",
      "r","t"," ","c","o","n","s","t"," ","f","a","v","o","r","i","t","e","s"," ","=",
      " ","{","\n"," "," ","/","/"," ","u","s","e","r","s","\n"," "," ","'","u","1","'",
      ":"," ","[","'","a","'",",","]",",","\n","}",";","\n">>

\* a hand-written file whose block comment the parser does not remove
BlockCommentFile ==
    <<"e","x","p","o","r","t"," ","c","o","n","s","t"," ","f","a","v","o","r","i","t",
      "e","s"," ","="," ","{","\n"," "," ","'","u","1","'",":"," ","[","'","a","'","]",
      ","," ","/","*"," ","c"," ","*","/","\n"," "," ","'","u","2","'",":"," ","[","'",
      "b","'","]",",","\n","}",";","\n">>

\* the file a successful add of "a,,]" for u1 writes when no user has an entry
BracketFile == Serialize(<<Entry(U1, <<SongCommaCommaBracket>>)>>)

PlainFiles == {GeneratedFile, HandWrittenFile, BlockCommentFile}

(***************************************************************************)
(* Errors and responses                                                    *)
(***************************************************************************)
None == "None"
\* the one error text that holds "not configured" (lines 71, 115)
ErrNotConfigured == "GitHub not configured"
\* str(e) of a failed get_contents; it does not hold "not configured"
ErrFetch == "StoreFetchFailed"
\* str(e) of an update_file the store refused for its token
ErrStale == "StaleWrite"
ErrSongRequired == "song_id is required"

\* "not configured" in error
HasNotConfigured(error) == error = ErrNotConfigured

\* jsonify({...}), status
Response(status, error, message, favorites) ==
    [status |-> status, error |-> error, message |-> message, favorites |-> favorites]

NoResponse == Response(0, None, None, <<>>)

Reqs == 1..NumReqs

IdleRequest ==
    [pc |-> "idle", route |-> None, user |-> <<>>, song |-> NoSong,
     read |-> <<>>, readErr |-> None, readRev |-> 0, favorites |-> <<>>,
     sha |-> 0, all_favs |-> <<>>, reloadRev |-> 0, calls |-> 0,
     resp |-> NoResponse]

(***************************************************************************)
(* Accessors                                                               *)
(***************************************************************************)
\* get_all_favorites(): (mapping, error).  fetched: get_contents returned
get_all_favorites(hist, conf, fetched) ==
    IF ~conf THEN [favs |-> <<>>, error |-> ErrNotConfigured]
    ELSE IF ~fetched THEN [favs |-> <<>>, error |-> ErrFetch]
    ELSE [favs |-> ParseFavorites(StoreGet(hist).content), error |-> None]

\* get_user_favorites(user_id), given what get_all_favorites returned
user_favorites(g, user_id) ==
    IF g.error # None THEN [favs |-> <<>>, error |-> g.error]
    ELSE [favs |-> DictGet(g.favs, user_id), error |-> None]

\* get_user_favorites(user_id): (list, error)
get_user_favorites(hist, conf, fetched, user_id) ==
    user_favorites(get_all_favorites(hist, conf, fetched), user_id)

\* a handler returns: the request is over
Return(q, resp) == [q EXCEPT !.pc = "done", !.resp = resp]

(***************************************************************************)
(* Request handlers.  A request is a record q; each action below holds one *)
(* call to the store and the local code up to the next call.               *)
(***************************************************************************)
\* the request after get_user_favorites returned g from revision rev
Loaded(q, g, rev) ==
    [q EXCEPT !.read = g.favs, !.readErr = g.error, !.readRev = rev,
              !.favorites = g.favs]

\* add_favorite_loaded without the membership test of line 380
add_favorite_loaded_nocheck(q, g, rev) ==
    IF g.error # None
    THEN Return(Loaded(q, g, rev), Response(500, g.error, None, <<>>))
    ELSE [Loaded(q, g, rev) EXCEPT !.favorites = Append(g.favs, q.song),
                                   !.pc = "get_contents"]

\* add_favorite, lines 377-387, given what get_user_favorites returned
add_favorite_loaded(q, g, rev) ==
    IF g.error # None
    THEN Return(Loaded(q, g, rev), Response(500, g.error, None, <<>>))
    ELSE IF InList(q.song, g.favs)
    THEN Return(Loaded(q, g, rev),
                Response(200, None, "Already in favorites", g.favs))
    ELSE [Loaded(q, g, rev) EXCEPT !.favorites = Append(g.favs, q.song),
                                   !.pc = "get_contents"]

\* add_favorite up to its call of update_user_favorites
add_favorite_step(q, hist, conf, fetched) ==
    IF q.song = NoSong
    THEN Return(q, Response(400, ErrSongRequired, None, <<>>))
    ELSE add_favorite_loaded(q, get_user_favorites(hist, conf, fetched, q.user),
                             Len(hist))

\* remove_favorite_loaded saving the list also when the song is not in it
remove_favorite_loaded_nocheck(q, g, rev) ==
    IF g.error # None
    THEN Return(Loaded(q, g, rev), Response(500, g.error, None, <<>>))
    ELSE IF InList(q.song, g.favs)
    THEN [Loaded(q, g, rev) EXCEPT !.favorites = ListRemove(g.favs, q.song),
                                   !.pc = "get_contents"]
    ELSE [Loaded(q, g, rev) EXCEPT !.pc = "get_contents"]

\* remove_favorite, lines 416-420 and 432-437, given what get_user_favorites
\* returned
remove_favorite_loaded(q, g, rev) ==
    IF g.error # None
    THEN Return(Loaded(q, g, rev), Response(500, g.error, None, <<>>))
    ELSE IF InList(q.song, g.favs)
    THEN [Loaded(q, g, rev) EXCEPT !.favorites = ListRemove(g.favs, q.song),
                                   !.pc = "get_contents"]
    ELSE Return(Loaded(q, g, rev),
                Response(200, None, "Not in favorites", g.favs))

\* remove_favorite up to its call of update_user_favorites
remove_favorite_step(q, hist, conf, fetched) ==
    IF q.song = NoSong
    THEN Return(q, Response(400, ErrSongRequired, None, <<>>))
    ELSE remove_favorite_loaded(q, get_user_favorites(hist, conf, fetched, q.user),
                                Len(hist))

\* get_favorites_route, lines 352-359, given what get_user_favorites returned
get_favorites_loaded(q, g, rev) ==
    Return(Loaded(q, g, rev),
           Response(200, None, None,
                    IF g.error # None /\ ~HasNotConfigured(g.error)
                    THEN <<>> ELSE g.favs))

\* get_favorites_route
get_favorites_step(q, hist, conf, fetched) ==
    get_favorites_loaded(q, get_user_favorites(hist, conf, fetched, q.user),
                         Len(hist))

\* the handler's return after update_user_favorites returned (success, error)
after_update(q, success, error) ==
    IF ~success THEN Return(q, Response(500, error, None, <<>>))
    ELSE IF q.route = "add"
    THEN Return(q, Response(200, None, "Added to favorites", q.favorites))
    ELSE Return(q, Response(200, None, "Removed from favorites", q.favorites))

\* update_user_favorites, lines 113-117: the token is fetched
update_get_contents_step(q, hist, conf, fetched) ==
    IF ~conf THEN after_update(q, FALSE, ErrNotConfigured)
    ELSE IF ~fetched THEN after_update(q, FALSE, ErrFetch)
    ELSE [q EXCEPT !.sha = StoreGet(hist).sha, !.pc = "reload"]

\* lines 120-123, given what get_all_favorites returned: an error other than
\* "not configured" is ignored and the user's entry overwritten
update_reloaded(q, g, rev) ==
    IF g.error # None /\ HasNotConfigured(g.error)
    THEN after_update(q, FALSE, g.error)
    ELSE [q EXCEPT !.all_favs = DictSet(g.favs, q.user, q.favorites),
                   !.reloadRev = IF g.error = None THEN rev ELSE 0,
                   !.pc = "update_file"]

\* update_user_favorites, lines 119-123: the mapping is loaded again
update_reload_step(q, hist, conf, fetched) ==
    update_reloaded(q, get_all_favorites(hist, conf, fetched), Len(hist))

\* update_user_favorites, lines 125-148: what update_file is called with
new_content(q) == Serialize(q.all_favs)

\* update_file_step fetching a fresh token and trying again after a refusal
update_file_step_retry(q, ok) ==
    IF ok THEN after_update([q EXCEPT !.calls = @ + 1], TRUE, None)
    ELSE [q EXCEPT !.calls = @ + 1, !.pc = "get_contents"]

\* lines 138-148 and the handler's return: ok is the store's answer
update_file_step(q, ok) ==
    IF ok THEN after_update([q EXCEPT !.calls = @ + 1], TRUE, None)
    ELSE after_update([q EXCEPT !.calls = @ + 1], FALSE, ErrStale)

(***************************************************************************)
(* Actions                                                                 *)
(***************************************************************************)
Routes == {"add", "remove", "get"}

\* a request arrives: its route, the user id of its path and its song_id.
\* Requests take their slots in order.
Request(r) ==
    /\ req[r].pc = "idle"
    /\ IF r = 1 THEN TRUE ELSE req[r - 1].pc # "idle"
    /\ \E route \in Routes, u \in Users, s \in ids \cup {NoSong} :
          /\ route = "get" => s = NoSong
          /\ req' = [req EXCEPT ![r] = [@ EXCEPT !.pc = "handler", !.route = route,
                                                 !.user = u, !.song = s]]
    /\ UNCHANGED <<history, configured, ids, parserVars>>

add_favorite(r) ==
    /\ req[r].pc = "handler"
    /\ req[r].route = "add"
    /\ \E fetched \in BOOLEAN :
          req' = [req EXCEPT ![r] = add_favorite_step(@, history, configured, fetched)]
    /\ UNCHANGED <<history, configured, ids, parserVars>>

remove_favorite(r) ==
    /\ req[r].pc = "handler"
    /\ req[r].route = "remove"
    /\ \E fetched \in BOOLEAN :
          req' = [req EXCEPT ![r] = remove_favorite_step(@, history, configured, fetched)]
    /\ UNCHANGED <<history, configured, ids, parserVars>>

get_favorites_route(r) ==
    /\ req[r].pc = "handler"
    /\ req[r].route = "get"
    /\ \E fetched \in BOOLEAN :
          req' = [req EXCEPT ![r] = get_favorites_step(@, history, configured, fetched)]
    /\ UNCHANGED <<history, configured, ids, parserVars>>

update_get_contents(r) ==
    /\ req[r].pc = "get_contents"
    /\ \E fetched \in BOOLEAN :
          req' = [req EXCEPT ![r] = update_get_contents_step(@, history, configured, fetched)]
    /\ UNCHANGED <<history, configured, ids, parserVars>>

update_reload(r) ==
    /\ req[r].pc = "reload"
    /\ \E fetched \in BOOLEAN :
          req' = [req EXCEPT ![r] = update_reload_step(@, history, configured, fetched)]
    /\ UNCHANGED <<history, configured, ids, parserVars>>

\* the store answered st to the request's update_file
update_file_answered(r, st) ==
    /\ history' = st.history
    /\ req' = [req EXCEPT ![r] = update_file_step(@, st.ok)]

update_file(r) ==
    /\ req[r].pc = "update_file"
    /\ update_file_answered(r, StoreUpdate(history, new_content(req[r]), req[r].sha))
    /\ UNCHANGED <<configured, ids, parserVars>>

ParserOff ==
    /\ ptext = <<>>
    /\ pstage = "off"
    /\ pjson = <<>>
    /\ pfav = <<>>

\* the store holds a file, the client is configured or not, no request yet;
\* worlds pairs a file with the song ids the requests may name
InitStore(worlds) ==
    /\ \E w \in worlds : history = <<w[1]>> /\ ids = w[2]
    /\ configured \in BOOLEAN
    /\ req = [r \in Reqs |-> IdleRequest]

PlainWorlds == {<<f, PlainSongs>> : f \in PlainFiles}

Init ==
    /\ InitStore(PlainWorlds)
    /\ ParserOff

Next ==
    \E r \in Reqs :
        \/ Request(r)
        \/ add_favorite(r)
        \/ remove_favorite(r)
        \/ get_favorites_route(r)
        \/ update_get_contents(r)
        \/ update_reload(r)
        \/ update_file(r)

\* requests with plain song ids
Spec == Init /\ [][Next]_vars

InitAnyIds ==
    /\ InitStore(PlainWorlds \cup {<<BracketFile, BracketSongs>>})
    /\ ParserOff

\* requests with plain song ids, or with song ids that hold "," and "]"
SpecAnyIds == InitAnyIds /\ [][Next]_vars

(***************************************************************************)
(* The parser alone, one stage of lines 83-100 per step, on hand-written   *)
(* and generated texts                                                     *)
(***************************************************************************)
C7Text ==
    <<"f","a","v","o","r","i","t","e","s"," ","="," ","{","'","u","1","'",":"," ","[",
      "'","a","'",",","'","b","'","]",","," ","/","*"," ","c"," ","*","/"," ","'","u",
      "2","'",":"," ","[","'","c","'","]",",","}",";">>

BodyNoComment ==
    <<"f","a","v","o","r","i","t","e","s"," ","="," ","{","'","u","1","'",":"," ","[",
      "'","a","'",",","'","b","'","]",","," ","'","u","2","'",":"," ","[","'","c","'",
      "]",",","}",";">>

BodyLineComment ==
    <<"f","a","v","o","r","i","t","e","s"," ","="," ","{","'","u","1","'",":"," ","[",
      "'","a","'",",","'","b","'","]",","," ","/","/"," ","c","\n"," ","'","u","2","'",
      ":"," ","[","'","c","'","]",",","}",";">>

BodyEmpty ==
    <<"f","a","v","o","r","i","t","e","s"," ","="," ","{","\n","}",";","\n">>

BodyStrict ==
    <<"f","a","v","o","r","i","t","e","s","=","{","\"","u","1","\"",":"," ","[","\"",
      "a","\"","]","}",";">>

BodyDupKey ==
    <<"f","a","v","o","r","i","t","e","s"," ","="," ","{","'","u","1","'",":"," ","[",
      "'","a","'","]",","," ","'","u","2","'",":"," ","[","]",","," ","'","u","1","'",
      ":"," ","[","'","b","'",",","]",",","}",";">>

BodyUnclosed ==
    <<"f","a","v","o","r","i","t","e","s"," ","="," ","{","'","u","1","'",":"," ","[",
      "'","a","'","]","}">>

BodyNoAssign ==
    <<"f","a","v","o","r","i","t","e","s",":"," ","{","'","u","1","'",":"," ","[","'",
      "a","'","]","}",";">>

BodyCommentNoEol ==
    <<"f","a","v","o","r","i","t","e","s"," ","="," ","{","'","u","1","'",":"," ","[",
      "'","a","/","/","b","'","]","}",";">>

Bodies ==
    {C7Text, BodyNoComment, BodyLineComment, BodyEmpty, BodyStrict, BodyDupKey,
     BodyUnclosed, BodyNoAssign, BodyCommentNoEol}

HandWrittenHead ==
    <<"/","/"," ","m","y"," ","f","a","v","o","r","i","t","e","s","\n","e","x","p","o",
      "r","t"," ","c","o","n","s","t"," ">>

\* a line comment that itself holds an assignment to favorites
CommentedOutHead ==
    <<"/","/"," ","f","a","v","o","r","i","t","e","s"," ","="," ","{","}",";","\n">>

Heads == {<<>>, HandWrittenHead, CommentedOutHead}

InputTexts == {h \o b : h \in Heads, b \in Bodies} \cup {GeneratedFile, BracketFile}

IdleStore ==
    /\ history = <<GeneratedFile>>
    /\ configured = TRUE
    /\ ids = {}
    /\ req = [r \in Reqs |-> IdleRequest]

ParserInit ==
    /\ ptext \in InputTexts
    /\ pstage = "search"
    /\ pjson = <<>>
    /\ pfav = <<>>
    /\ IdleStore

\* line 83-85, 100
ParseSearch ==
    /\ pstage = "search"
    /\ pjson' = regex_search(ptext)
    /\ pstage' = IF regex_search(ptext) = <<>> THEN "done" ELSE "comments"
    /\ UNCHANGED <<ptext, pfav, storeVars>>

\* line 87
ParseComments ==
    /\ pstage = "comments"
    /\ pjson' = strip_comments(pjson)
    /\ pstage' = "quotes"
    /\ UNCHANGED <<ptext, pfav, storeVars>>

\* line 89
ParseQuotes ==
    /\ pstage = "quotes"
    /\ pjson' = replace_quotes(pjson)
    /\ pstage' = "commas"
    /\ UNCHANGED <<ptext, pfav, storeVars>>

\* line 91
ParseCommas ==
    /\ pstage = "commas"
    /\ pjson' = remove_trailing_commas(pjson)
    /\ pstage' = "loads"
    /\ UNCHANGED <<ptext, pfav, storeVars>>

\* lines 93-99
ParseLoads ==
    /\ pstage = "loads"
    /\ pfav' = Decoded(json_loads(pjson))
    /\ pstage' = "done"
    /\ UNCHANGED <<ptext, pjson, storeVars>>

ParserNext ==
    \/ ParseSearch
    \/ ParseComments
    \/ ParseQuotes
    \/ ParseCommas
    \/ ParseLoads

ParserSpec == ParserInit /\ [][ParserNext]_vars

(***************************************************************************)
(* Properties                                                              *)
(***************************************************************************)
\* the text of the favorites file at the moment
Current == StoreGet(history).content

\* the stored favorites list of user u in revision k of the file
StoredList(k, u) == DictGet(ParseFavorites(history[k]), u)

Finished(r) == req[r].pc = "done"

\* request r called update_file and the store took its content
Wrote(r) == Finished(r) /\ req[r].calls = 1 /\ req[r].resp.status = 200

\* C1: when the file was replaced after a request fetched its token, the
\* request's update_file is refused: the file stays as the other writer left
\* it, the request ends with 500 and the store's error, having called
\* update_file once; a finished request takes no further step.
C1_StaleUpdateRejected ==
    [][\A r \in Reqs :
          /\ (req[r].pc = "update_file" /\ req'[r] # req[r]
                  /\ req[r].sha # Len(history))
                => /\ history' = history
                   /\ req'[r].pc = "done"
                   /\ req'[r].resp = Response(500, ErrStale, None, <<>>)
                   /\ req'[r].calls = 1
          /\ Finished(r) => req'[r] = req[r]]_vars

\* a request refused for its stale token, next to the writer that replaced the file
C1_Witness ==
    \E r, w \in Reqs :
        /\ Finished(r) /\ req[r].resp.error = ErrStale /\ req[r].calls = 1
        /\ Wrote(w) /\ req[w].sha >= req[r].sha
        /\ Len(history) = req[w].sha + 1

\* C2: a successful update_file of a request changes only the entry of the
\* request's user: every other user with an entry in the file before the
\* write has the same list after it.
C2_OnlyOwnEntryChanges ==
    [][\A r \in Reqs :
          (req[r].pc = "update_file" /\ history' # history)
              => \A v \in Keys(ParseFavorites(Current)) \ {req[r].user} :
                    /\ v \in Keys(ParseFavorites(history'[Len(history')]))
                    /\ DictGet(ParseFavorites(history'[Len(history')]), v)
                           = DictGet(ParseFavorites(Current), v)]_vars

\* request a is an add and request b a remove of the same song for the same
\* user, both saved, b right after a and no fetch failing: a read revision k,
\* loaded it again and wrote k+1, b read revision k+1, loaded it again and
\* wrote k+2
AddThenRemove(a, b) ==
    /\ req[a].route = "add" /\ req[b].route = "remove"
    /\ req[a].user = req[b].user /\ req[a].song = req[b].song
    /\ Wrote(a) /\ req[a].resp.message = "Added to favorites"
    /\ Wrote(b) /\ req[b].resp.message = "Removed from favorites"
    /\ req[a].sha = req[a].readRev /\ req[a].reloadRev = req[a].readRev
    /\ req[b].readRev = req[a].sha + 1
    /\ req[b].sha = req[b].readRev /\ req[b].reloadRev = req[b].readRev

\* C3: a successful add followed by a successful remove of the same song for
\* the same user leaves the user's stored list as it was before the add.
C3_AddThenRemoveRestores ==
    \A a, b \in Reqs :
        AddThenRemove(a, b)
            => StoredList(req[b].sha + 1, req[a].user)
                   = StoredList(req[a].readRev, req[a].user)

\* C4: an add of a song that is in the user's stored list makes no call to
\* update_file and answers 200 "Already in favorites" with the list.
C4_AddExistingNoWrite ==
    \A r \in Reqs :
        (/\ req[r].route = "add"
         /\ req[r].readRev # 0
         /\ req[r].readErr = None
         /\ InList(req[r].song, req[r].read))
            => /\ Finished(r)
               /\ req[r].resp = Response(200, None, "Already in favorites", req[r].read)
               /\ req[r].calls = 0
               /\ req[r].sha = 0

\* an add answered "Already in favorites" after another request saved that song
C4_Witness ==
    \E r, w \in Reqs :
        /\ req[r].route = "add" /\ Finished(r)
        /\ req[r].resp.message = "Already in favorites"
        /\ Wrote(w) /\ req[w].route = "add" /\ req[w].song = req[r].song
        /\ req[r].readRev = req[w].sha + 1

\* C5: a remove of a song that is not in the user's stored list (the user may
\* have no entry) makes no call to update_file and answers 200 "Not in
\* favorites".
C5_RemoveAbsentNoWrite ==
    \A r \in Reqs :
        (/\ req[r].route = "remove"
         /\ req[r].readRev # 0
         /\ req[r].readErr = None
         /\ ~InList(req[r].song, req[r].read))
            => /\ Finished(r)
               /\ req[r].resp = Response(200, None, "Not in favorites", req[r].read)
               /\ req[r].calls = 0
               /\ req[r].sha = 0

\* a remove answered "Not in favorites" for a user without an entry, the file
\* still without an entry for that user
C5_Witness ==
    \E r \in Reqs :
        /\ req[r].route = "remove" /\ Finished(r)
        /\ req[r].resp.message = "Not in favorites"
        /\ req[r].user \notin Keys(ParseFavorites(history[req[r].readRev]))
        /\ Keys(ParseFavorites(history[req[r].readRev])) # {}
        /\ req[r].user \notin Keys(ParseFavorites(Current))

\* C6: GET /api/favorites/<user_id> answers a failed load with an empty list
\* and success, except that a store that is not configured is reported to the
\* caller as that error.
C6_GetSurfacesNotConfigured ==
    \A r \in Reqs :
        (req[r].route = "get" /\ Finished(r))
            => /\ req[r].readErr = ErrFetch
                   => req[r].resp = Response(200, None, None, <<>>)
               /\ req[r].readErr = ErrNotConfigured
                   => req[r].resp.error = ErrNotConfigured

\* {"u1": ["a","b"], "u2": ["c"]}
C7Mapping == <<Entry(U1, <<SongA, SongB>>), Entry(U2, <<<<"c">>>>)>>

\* C7, as amended: on favorites = {'u1': ['a','b'], /* c */ 'u2': ['c'],};
\* the parser returns the empty mapping, the block comment making the decoding
\* fail; on the same text without the block comment it returns
\* {"u1": ["a","b"], "u2": ["c"]}.
C7_BlockCommentYieldsEmpty ==
    pstage = "done"
        => /\ ptext = C7Text => pfav = <<>>
           /\ ptext = BodyNoComment => pfav = C7Mapping

\* the parser has finished on the text of C7
C7_Witness == pstage = "done" /\ ptext = C7Text /\ pfav = <<>> /\ pjson # <<>>

\* C7, as claimed: on that text the parser returns {"u1": ["a","b"], "u2": ["c"]}.
C7_Original == (pstage = "done" /\ ptext = C7Text) => pfav = C7Mapping

\* every request is a finished add for one user, the songs all different
OnlyAddsOfOneUser ==
    /\ \A r \in Reqs : Finished(r) /\ req[r].route = "add" /\ req[r].user = req[1].user
    /\ \A r, t \in Reqs : req[r].song = req[t].song => r = t

\* C8: once concurrent adds of different songs for one user have all
\* finished, every song answered "Added to favorites" is in the user's stored
\* list.
C8_NoAcknowledgedAddLost ==
    OnlyAddsOfOneUser
        => \A r \in Reqs :
              req[r].resp.message = "Added to favorites"
                  => InList(req[r].song, StoredList(Len(history), req[r].user))

\* C9: the token given to update_file is the token of the revision the
\* written mapping was loaded from.
C9_TokenOfReloadedRevision ==
    \A r \in Reqs :
        (req[r].pc = "update_file" /\ req[r].reloadRev # 0)
            => req[r].sha = req[r].reloadRev

\* C10: no user's stored list holds a song twice.
C10_NoDuplicates ==
    \A u \in Keys(ParseFavorites(Current)) :
        NoDuplicates(DictGet(ParseFavorites(Current), u))

====
